---- MODULE Spec2Model ----
(***************************************************************************)
(* Credential lifecycle of the sequence-builder CLI: the persisted config  *)
(* record (src/lib/config.ts), the passphrase cipher (src/lib/crypto.ts),  *)
(* the request dispatcher (src/lib/api.ts) and the commands that use them. *)
(*                                                                         *)
(* An invocation of the CLI is a process that walks through its command's  *)
(* handler.  One step of a process is one I/O operation of the handler     *)
(* (a read or a write of the config file, a request sent, a response       *)
(* received) together with the synchronous code that follows it up to the  *)
(* next I/O operation.                                                     *)
(***************************************************************************)
EXTENDS Integers, Sequences, FiniteSets, TLC

VARIABLES
  file,       \* the config file
  now,        \* the clock
  inv,        \* the invocation each process runs
  invCount,   \* the invocations started so far
  lastStore,  \* history: the key and passphrase of the bundle that
              \* storeEncryptedKey wrote last, while that bundle is on file
  call        \* a call of a function of the libraries on its own: the
              \* function, its arguments and, once it returned, its result

vars == <<file, now, inv, invCount, lastStore, call>>

(***************************************************************************)
(* Bounds of the model.                                                    *)
(***************************************************************************)
MaxTime == 2
MaxInvocations == 2

(***************************************************************************)
(* JavaScript values.  A field that is absent from an object and a field   *)
(* whose value is undefined are the same to every reader in the code       *)
(* (truthiness tests, JSON.stringify drops undefined).                     *)
(***************************************************************************)
Undefined == "<undefined>"
Null == "<null>"

Truthy(s) == s # Undefined /\ s # Null /\ s # ""

(***************************************************************************)
(* Exit codes.                                                             *)
(***************************************************************************)
SUCCESS == 0
GENERAL_ERROR == 1
NOT_LOGGED_IN == 10
INVALID_PRIVATE_KEY == 11
INSUFFICIENT_FUNDS == 20
PROJECT_NOT_FOUND == 31
API_ERROR == 40

(***************************************************************************)
(* Time.  An ISO timestamp string of the millisecond t is written          *)
(* IsoString(t); any other string does not parse as a date.                *)
(***************************************************************************)
Times == 0..MaxTime

\* The instants a timestamp of the model can name.
Instants == 0..(MaxTime + 1)

IsoString(t) == "T" \o ToString(t)

NotADate == "not-a-date"

\* new Date(s): a Date whose time value is NaN when s does not parse.
DateParse(s) ==
  IF \E t \in Instants : IsoString(t) = s
  THEN [valid |-> TRUE, ms |-> CHOOSE t \in Instants : IsoString(t) = s]
  ELSE [valid |-> FALSE, ms |-> 0]

\* new Date(): the current time.
DateNow(t) == [valid |-> TRUE, ms |-> t]

\* Mutation: a > b.
DateGt(a, b) == a.valid /\ b.valid /\ a.ms > b.ms

\* a >= b on two Dates: the comparison of their time values, false when
\* either is NaN.
DateGe(a, b) == a.valid /\ b.valid /\ a.ms >= b.ms

(***************************************************************************)
(* The config record.                                                      *)
(***************************************************************************)
Fields ==
  {"jwtToken", "jwtExpiresAt", "environment", "apiUrl",
   "encryptedPrivateKey", "encryptionSalt", "encryptionIv"}

KeyFields == {"encryptedPrivateKey", "encryptionSalt", "encryptionIv"}

EmptyConfig == [f \in Fields |-> Undefined]

DefaultConfig == [EmptyConfig EXCEPT !["environment"] = "prod"]

NoUpdates == [f \in {} |-> Undefined]

\* The config file: absent, present with unparseable content, or a JSON
\* document.
NoFile == [kind |-> "absent", cfg |-> EmptyConfig]

CorruptFile == [kind |-> "corrupt", cfg |-> EmptyConfig]

\* Mutation: the content of an unparseable file is used as it is.
loadConfigCorruptAsIs(f) == IF f.kind = "absent" THEN DefaultConfig ELSE f.cfg

\* existsSync false, or JSON.parse throws and the catch returns the default
loadConfig(f) == IF f.kind = "json" THEN f.cfg ELSE DefaultConfig

\* JSON.stringify leaves out the fields whose value is undefined.
saveConfig(config) == [kind |-> "json", cfg |-> config]

\* Mutation: { ...updates, ...current }
MergeCurrentWins(current, updates) ==
  [f \in Fields |->
     IF current[f] # Undefined THEN current[f]
     ELSE IF f \in DOMAIN updates THEN updates[f] ELSE Undefined]

\* { ...current, ...updates }
Merge(current, updates) ==
  [f \in Fields |-> IF f \in DOMAIN updates THEN updates[f] ELSE current[f]]

(***************************************************************************)
(* getValidJwtToken at time t with the file f.                             *)
(***************************************************************************)
getValidJwtToken(f, t) ==
  LET config == loadConfig(f)
  IN  IF ~Truthy(config["jwtToken"]) \/ ~Truthy(config["jwtExpiresAt"])
      THEN Null
      ELSE IF DateGe(DateNow(t), DateParse(config["jwtExpiresAt"]))
           THEN Null
           ELSE config["jwtToken"]

\* Mutation: a stored token counts as a session whatever its expiry.
isLoggedInTokenOnly(f, t) == Truthy(loadConfig(f)["jwtToken"])

isLoggedIn(f, t) == getValidJwtToken(f, t) # Null

(***************************************************************************)
(* getApiUrl.                                                              *)
(***************************************************************************)
ProdUrl == "https://api.sequence.build"
DevUrl == "https://dev-api.sequence.build"

\* Mutation: the persisted environment is looked at before the env option.
getApiUrlPersistedFirst(optEnv, optApiUrl, f) ==
  IF Truthy(optApiUrl)
  THEN optApiUrl
  ELSE LET config == loadConfig(f)
           env == IF Truthy(config["environment"]) THEN config["environment"]
                  ELSE IF Truthy(optEnv) THEN optEnv ELSE "prod"
       IN  IF env = "dev" THEN DevUrl ELSE ProdUrl

getApiUrl(optEnv, optApiUrl, f) ==
  IF Truthy(optApiUrl)
  THEN optApiUrl
  ELSE LET config == loadConfig(f)
           env == IF Truthy(optEnv) THEN optEnv
                  ELSE IF Truthy(config["environment"])
                       THEN config["environment"] ELSE "prod"
       IN  IF env = "dev" THEN DevUrl ELSE ProdUrl

(***************************************************************************)
(* The passphrase cipher, as a symbolic cipher: the key is a term of the   *)
(* passphrase and the salt, the ciphertext and the tag are terms of the    *)
(* key, the IV and the plaintext, and a term is recovered only by the      *)
(* operation that inverts it.                                              *)
(***************************************************************************)
scrypt(passphrase, salt) == "k<" \o passphrase \o "," \o salt \o ">"

GcmCiphertext(key, iv, plaintext) ==
  "E<" \o key \o "," \o iv \o "," \o plaintext \o ">"

GcmTag(key, iv, plaintext) ==
  "M<" \o key \o "," \o iv \o "," \o plaintext \o ">"

NoData == [encrypted |-> Undefined, salt |-> Undefined, iv |-> Undefined]

\* Mutation: the key is stored as it is.
encryptPrivateKeyPlain(privateKey, passphrase, salt, iv) ==
  [encrypted |-> privateKey, salt |-> salt, iv |-> iv]

\* salt and iv are the results of the two randomBytes calls.
encryptPrivateKey(privateKey, passphrase, salt, iv) ==
  LET key == scrypt(passphrase, salt)
  IN  [encrypted |-> GcmCiphertext(key, iv, privateKey) \o ":"
                       \o GcmTag(key, iv, privateKey),
       salt |-> salt,
       iv |-> iv]

(***************************************************************************)
(* Private keys.  The key strings of the model and what the validity check *)
(* reads of each: whether it starts with 0x, its length, and whether       *)
(* ethers.Wallet accepts it once it has the prefix (64 hex digits naming a *)
(* scalar of the curve).                                                   *)
(***************************************************************************)
KeyA == "0xaaaa"
KeyG == "0x9999"
KeyShort == "0x12"

ValidKeys == {KeyA, KeyG}

Plaintexts == {KeyA, KeyG, KeyShort}

PREFIXED_KEY_LENGTH == 66

\* Strings by their make: an optional 0x, then n characters that are hex
\* digits naming a scalar of the curve ("hex"), hex digits that are all 0
\* ("zero"), or characters of which one is no hex digit ("nonhex").
KeyKinds == {"hex", "zero", "nonhex"}

KeyLengths == {4, 63, 64, 65, 66}

KeyString(has0x, n, kind) ==
  (IF has0x THEN "0x" ELSE "") \o "<" \o ToString(n) \o " " \o kind \o ">"

KeyStrings ==
  {KeyString(b, n, kind) : b \in BOOLEAN, n \in KeyLengths, kind \in KeyKinds}

\* new ethers.Wallet(privateKey) of a prefixed string of n characters after
\* the prefix: it throws unless they are 64 hex digits that name a scalar
\* of the curve.
WalletAccepts(n, kind) == n = PREFIXED_KEY_LENGTH - 2 /\ kind = "hex"

KeyShape(k) ==
  CASE k = KeyA -> [has0x |-> TRUE, length |-> 66, walletOk |-> TRUE]
    [] k = KeyG -> [has0x |-> TRUE, length |-> 66, walletOk |-> TRUE]
    [] k = KeyShort -> [has0x |-> TRUE, length |-> 4, walletOk |-> FALSE]
    [] k \in KeyStrings ->
         LET shape == CHOOSE x \in BOOLEAN \X KeyLengths \X KeyKinds :
                        KeyString(x[1], x[2], x[3]) = k
         IN  [has0x |-> shape[1],
              length |-> IF shape[1] THEN shape[2] + 2 ELSE shape[2],
              walletOk |-> WalletAccepts(shape[2], shape[3])]
    [] OTHER -> [has0x |-> FALSE, length |-> 0, walletOk |-> FALSE]

\* Mutation: the prefix is not added to a string that lacks it.
isValidPrivateKeyAsGiven(privateKey) ==
  LET shape == KeyShape(privateKey)
  IN  IF shape.length # PREFIXED_KEY_LENGTH
      THEN FALSE ELSE shape.has0x /\ shape.walletOk

isValidPrivateKey(privateKey) ==
  LET shape == KeyShape(privateKey)
      length == IF shape.has0x THEN shape.length ELSE shape.length + 2
  IN  IF length # PREFIXED_KEY_LENGTH THEN FALSE ELSE shape.walletOk

\* ethers.Wallet.createRandom(): a fresh valid key.
GeneratedKeys == {KeyG}

\* Mutation: the tag is not checked, and a wrong key or an altered
\* ciphertext decrypts to bytes that are no key.
decryptPrivateKeyUnauthenticated(data, passphrase) ==
  LET key == scrypt(passphrase, data.salt)
      authentic ==
        {p \in Plaintexts :
           data.encrypted = GcmCiphertext(key, data.iv, p) \o ":"
                              \o GcmTag(key, data.iv, p)}
  IN  IF authentic # {}
      THEN [ok |-> TRUE, value |-> CHOOSE p \in authentic : TRUE]
      ELSE [ok |-> TRUE, value |-> "garbage"]

\* Mutation: the key is derived from the IV instead of the salt.
decryptPrivateKeyIvAsSalt(data, passphrase) ==
  LET key == scrypt(passphrase, data.iv)
      authentic ==
        {p \in Plaintexts :
           data.encrypted = GcmCiphertext(key, data.iv, p) \o ":"
                              \o GcmTag(key, data.iv, p)}
  IN  IF authentic # {}
      THEN [ok |-> TRUE, value |-> CHOOSE p \in authentic : TRUE]
      ELSE [ok |-> FALSE, value |-> Undefined]

(***************************************************************************)
(* decryptPrivateKey: the key is derived again from the passphrase and the *)
(* stored salt; decipher.final() throws unless the tag is the tag of the   *)
(* ciphertext under that key and IV.  The result says whether the call     *)
(* returned (ok) and what.                                                 *)
(***************************************************************************)
decryptPrivateKey(data, passphrase) ==
  LET key == scrypt(passphrase, data.salt)
      authentic ==
        {p \in Plaintexts :
           data.encrypted = GcmCiphertext(key, data.iv, p) \o ":"
                              \o GcmTag(key, data.iv, p)}
  IN  IF authentic # {}
      THEN [ok |-> TRUE, value |-> CHOOSE p \in authentic : TRUE]
      ELSE [ok |-> FALSE, value |-> Undefined]

StoredData(config) ==
  [encrypted |-> config["encryptedPrivateKey"],
   salt |-> config["encryptionSalt"],
   iv |-> config["encryptionIv"]]

\* Mutation: without a key the process exits with the general error code.
getPrivateKeyGeneralError(optKey, passphrase, f) ==
  IF Truthy(optKey)
  THEN [returns |-> TRUE, key |-> optKey, exitCode |-> SUCCESS, decrypted |-> FALSE]
  ELSE LET config == loadConfig(f)
           d == decryptPrivateKey(StoredData(config), passphrase)
       IN  IF /\ Truthy(config["encryptedPrivateKey"])
              /\ Truthy(config["encryptionSalt"])
              /\ Truthy(config["encryptionIv"])
              /\ Truthy(passphrase)
           THEN IF d.ok
                THEN [returns |-> TRUE, key |-> d.value,
                      exitCode |-> SUCCESS, decrypted |-> TRUE]
                ELSE [returns |-> FALSE, key |-> Undefined,
                      exitCode |-> INVALID_PRIVATE_KEY, decrypted |-> FALSE]
           ELSE [returns |-> FALSE, key |-> Undefined,
                 exitCode |-> GENERAL_ERROR, decrypted |-> FALSE]

\* Mutation: a stored key that decrypts is preferred to the explicit one.
getPrivateKeyStoredFirst(optKey, passphrase, f) ==
  LET config == loadConfig(f)
      d == decryptPrivateKey(StoredData(config), passphrase)
  IN  IF Truthy(config["encryptedPrivateKey"]) /\ Truthy(passphrase) /\ d.ok
      THEN [returns |-> TRUE, key |-> d.value, exitCode |-> SUCCESS, decrypted |-> TRUE]
      ELSE IF Truthy(optKey)
           THEN [returns |-> TRUE, key |-> optKey, exitCode |-> SUCCESS,
                 decrypted |-> FALSE]
           ELSE [returns |-> FALSE, key |-> Undefined,
                 exitCode |-> INVALID_PRIVATE_KEY, decrypted |-> FALSE]

(***************************************************************************)
(* getPrivateKey: the key the command goes on with (returns = TRUE) or     *)
(* the exit code the process ends with.                                    *)
(***************************************************************************)
getPrivateKey(optKey, passphrase, f) ==
  IF Truthy(optKey)
  THEN [returns |-> TRUE, key |-> optKey, exitCode |-> SUCCESS, decrypted |-> FALSE]
  ELSE LET config == loadConfig(f)
       IN  IF /\ Truthy(config["encryptedPrivateKey"])
              /\ Truthy(config["encryptionSalt"])
              /\ Truthy(config["encryptionIv"])
              /\ Truthy(passphrase)
           THEN LET d == decryptPrivateKey(StoredData(config), passphrase)
                IN  IF d.ok
                    THEN [returns |-> TRUE, key |-> d.value,
                          exitCode |-> SUCCESS, decrypted |-> TRUE]
                    ELSE [returns |-> FALSE, key |-> Undefined,
                          exitCode |-> INVALID_PRIVATE_KEY, decrypted |-> FALSE]
           ELSE [returns |-> FALSE, key |-> Undefined,
                 exitCode |-> INVALID_PRIVATE_KEY, decrypted |-> FALSE]

(***************************************************************************)
(* The request dispatcher.  A request is its URL and its Authorization     *)
(* header (Undefined when the header is not set).                          *)
(***************************************************************************)
NoRequest == [url |-> Undefined, authorization |-> Undefined]

Bearer(jwt) == "Bearer " \o jwt

apiRequest(endpoint, optEnv, optApiUrl, optJwt, f, t) ==
  LET baseUrl == getApiUrl(optEnv, optApiUrl, f)
      jwt == IF Truthy(optJwt) THEN optJwt ELSE getValidJwtToken(f, t)
  IN  [url |-> baseUrl \o "/rpc/Builder/" \o endpoint,
       authorization |-> IF Truthy(jwt) THEN Bearer(jwt) ELSE Undefined]

quotaApiRequest(endpoint, optEnv, optApiUrl, optJwt, f, t) ==
  LET baseUrl == getApiUrl(optEnv, optApiUrl, f)
      jwt == IF Truthy(optJwt) THEN optJwt ELSE getValidJwtToken(f, t)
  IN  [url |-> baseUrl \o "/rpc/QuotaControl/" \o endpoint,
       authorization |-> IF Truthy(jwt) THEN Bearer(jwt) ELSE Undefined]

(***************************************************************************)
(* Numbers that can be null (number | null): retryAfterSeconds.            *)
(***************************************************************************)
NullNumber == [null |-> TRUE, n |-> 0]

Number(n) == [null |-> FALSE, n |-> n]

NaN == [nan |-> TRUE, n |-> 0]

Max(a, b) == IF a >= b THEN a ELSE b

\* Math.ceil(x / d) for an integer x and d > 0
CeilDiv(x, d) == -((-x) \div d)

MS_PER_SECOND == 1000

(***************************************************************************)
(* The Retry-After header.  A header value is what the two parsers read    *)
(* of the string: decimal digits (with whatever follows them), an          *)
(* HTTP-date, or other text.  headers.get gives null for no header.        *)
(***************************************************************************)
NoHeader == [form |-> "null"]

EmptyHeader == [form |-> "empty"]

\* The digits of n followed by rest: "5" is Digits(5, ""), "5x" is
\* Digits(5, "x"), "1.5" is Digits(1, ".5").
Digits(n, rest) == [form |-> "digits", n |-> n, rest |-> rest]

\* The HTTP-date of the instant ms, a whole second.
HttpDate(ms) == [form |-> "httpdate", ms |-> ms]

TextHeader == [form |-> "text"]

\* parseInt(header, 10): the integer of the leading digits, whatever
\* follows them; NaN when the string starts with no digit.
parseInt(header) ==
  IF header.form = "digits" THEN [nan |-> FALSE, n |-> header.n] ELSE NaN

\* new Date(header), reached only when parseInt gave NaN
HeaderDate(header) ==
  IF header.form = "httpdate"
  THEN [valid |-> TRUE, ms |-> header.ms]
  ELSE [valid |-> FALSE, ms |-> 0]

\* parseRetryAfter(header) at the time t
parseRetryAfter(header, t) ==
  IF header.form \in {"null", "empty"}
  THEN NullNumber
  ELSE LET seconds == parseInt(header)
           date == HeaderDate(header)
       IN  IF ~seconds.nan /\ seconds.n >= 0
           THEN Number(seconds.n)
           ELSE IF date.valid
                THEN Number(Max(0, CeilDiv(date.ms - t, MS_PER_SECOND)))
                ELSE NullNumber

(***************************************************************************)
(* ApiError.                                                               *)
(***************************************************************************)
RATE_LIMITED == 429
PERMISSION_DENIED == 403
UNAUTHORIZED == 401

ApiErrorLabel(statusCode) ==
  IF statusCode = RATE_LIMITED THEN "Rate Limited"
  ELSE IF statusCode = PERMISSION_DENIED THEN "Permission Denied"
  ELSE IF statusCode = UNAUTHORIZED THEN "Unauthorized"
  ELSE "API Error"

\* The message of an ApiError: `${label} (${statusCode})`, then the body
\* and the retry hint when there is one (the dash of the source is
\* written --).
ApiErrorMessage(statusCode, errorBody, retryAfter) ==
  ApiErrorLabel(statusCode) \o " (" \o ToString(statusCode) \o ")"
  \o (IF errorBody # "" THEN ": " \o errorBody ELSE "")
  \o (IF ~retryAfter.null
      THEN " -- retry after " \o ToString(retryAfter.n) \o "s" ELSE "")

\* Mutation: 401 is classified as permission-denied too.
ApiErrorWideDenied(statusCode, errorBody, retryAfter) ==
  [name |-> "ApiError",
   message |-> ApiErrorMessage(statusCode, errorBody, retryAfter),
   statusCode |-> statusCode,
   retryAfterSeconds |-> retryAfter,
   errorBody |-> errorBody,
   isRateLimited |-> statusCode = RATE_LIMITED,
   isPermissionDenied |-> statusCode \in {PERMISSION_DENIED, UNAUTHORIZED},
   isUnauthorized |-> statusCode = UNAUTHORIZED]

\* new ApiError(statusCode, errorBody, retryAfter)
ApiError(statusCode, errorBody, retryAfter) ==
  [name |-> "ApiError",
   message |-> ApiErrorMessage(statusCode, errorBody, retryAfter),
   statusCode |-> statusCode,
   retryAfterSeconds |-> retryAfter,
   errorBody |-> errorBody,
   isRateLimited |-> statusCode = RATE_LIMITED,
   isPermissionDenied |-> statusCode = PERMISSION_DENIED,
   isUnauthorized |-> statusCode = UNAUTHORIZED]

isApiError(error) == error.name = "ApiError"

\* No error was thrown.
NoError == [name |-> "none", message |-> ""]

\* fetch rejects: a TypeError that is no ApiError.
FetchFailed == [name |-> "TypeError", message |-> "fetch failed"]

(***************************************************************************)
(* What the remote API can answer: a transport failure (fetch rejects), a  *)
(* non-2xx status, or a 2xx status with a JSON body.  token and expiresAt  *)
(* are auth.jwtToken and auth.expiresAt of a GetAuthToken body.            *)
(***************************************************************************)
\* The token of the n-th invocation's login: the server issues a new token
\* with every session.
IssuedToken(n) == "tok" \o ToString(n)

\* The expiry the server names: an instant the clock reaches and passes, a
\* string that is no timestamp, or none.
ExpiryValues == {IsoString(t) : t \in 1..(MaxTime - 1)} \cup {NotADate, Undefined}

\* The status codes of the failures the model answers with.
FailureStatuses == {401, 403, 429, 500}

\* The text of a non-2xx response.  Of the strings login's catch looks for
\* in a message ('403', 'permissiondenied', 'rate limit'),
\* "rate limit exceeded" holds the last and the others hold none.
ErrorBodies == {"", "denied", "rate limit exceeded"}

\* The Retry-After header and the text a response of status st comes with.
FailureDetails(st) ==
  {[retryAfter |-> NoHeader, text |-> ""],
   [retryAfter |-> Digits(5, ""), text |-> "denied"]}
  \cup
  (IF st = 500
   THEN {[retryAfter |-> HttpDate(MS_PER_SECOND), text |-> "rate limit exceeded"]}
   ELSE {})

NoResponse ==
  [kind |-> "none", status |-> 0, ok |-> FALSE,
   token |-> Undefined, expiresAt |-> Undefined,
   retryAfter |-> NoHeader, text |-> ""]

Responses(n) ==
  {[NoResponse EXCEPT !.kind = "neterr"]}
  \cup
  UNION {{[NoResponse EXCEPT !.kind = "http", !.status = st,
                             !.retryAfter = d.retryAfter, !.text = d.text] :
            d \in FailureDetails(st)} : st \in FailureStatuses}
  \cup
  {[NoResponse EXCEPT !.kind = "http", !.status = 200, !.ok = TRUE,
                      !.token = IssuedToken(n), !.expiresAt = ex] :
     ex \in ExpiryValues}
  \cup
  {[NoResponse EXCEPT !.kind = "http", !.status = 200, !.ok = ok, !.token = tk] :
     ok \in BOOLEAN, tk \in {IssuedToken(n), Undefined}}

\* The answers that come without a Retry-After header and without text.
PlainResponses(n) ==
  {resp \in Responses(n) : resp.retryAfter = NoHeader /\ resp.text = ""}

\* Of the answers rs, those to a list request: of a 2xx answer the command
\* reads only the list in its body.
ListResponses(rs) ==
  {resp \in rs :
     resp.status = 200 =>
       (resp.ok /\ resp.token = Undefined /\ resp.expiresAt = Undefined)}

\* response.ok of fetch
HttpOk(resp) == resp.kind = "http" /\ resp.status >= 200 /\ resp.status <= 299

\* Mutation: the Retry-After header is not read.
buildApiErrorNoHint(resp, t) ==
  ApiError(resp.status, resp.text, NullNumber)

\* buildApiError(response) at the time t
buildApiError(resp, t) ==
  ApiError(resp.status, resp.text, parseRetryAfter(resp.retryAfter, t))

\* What awaiting apiRequest or quotaApiRequest throws on the response:
\* fetch's rejection, the ApiError of a non-2xx response, or nothing.
Thrown(resp, t) ==
  IF resp.kind = "neterr" THEN FetchFailed
  ELSE IF ~HttpOk(resp) THEN buildApiError(resp, t)
  ELSE NoError

(***************************************************************************)
(* What a failed command reports: the object it prints with --json and the *)
(* lines it prints without.                                                *)
(***************************************************************************)
NoReport == [json |-> [code |-> SUCCESS], text |-> <<>>]

\* extractErrorMessage(error) of a thrown Error
extractErrorMessage(error) == error.message

\* message.includes(needle), needle one of the strings login's catch looks
\* for, after toLowerCase() for the last two.
MessageIncludes(error, needle) ==
  \/ needle = "403" /\ isApiError(error) /\ error.statusCode = PERMISSION_DENIED
  \/ needle = "rate limit" /\ isApiError(error) /\ error.statusCode = RATE_LIMITED
  \/ needle = "rate limit" /\ isApiError(error)
     /\ error.errorBody = "rate limit exceeded"

RetryLines(error) ==
  IF ~error.retryAfterSeconds.null
  THEN <<"Retry after: " \o ToString(error.retryAfterSeconds.n) \o "s">>
  ELSE <<>>

BodyLines(error) ==
  IF error.errorBody # "" THEN <<"Server response: " \o error.errorBody>> ELSE <<>>

\* The catch of loginCommand
loginCatchReport(error) ==
  IF isApiError(error) /\ (error.isRateLimited \/ error.isPermissionDenied)
  THEN [json |-> [error |-> IF error.isRateLimited
                            THEN "Rate limited" ELSE "Permission denied",
                  statusCode |-> error.statusCode,
                  retryAfterSeconds |-> error.retryAfterSeconds,
                  detail |-> error.errorBody,
                  code |-> API_ERROR],
        text |-> (IF error.isRateLimited
                  THEN <<"Rate limited by the API">>
                  ELSE <<"Permission denied (403)">>)
                 \o RetryLines(error) \o BodyLines(error)]
  ELSE IF \/ MessageIncludes(error, "403")
          \/ MessageIncludes(error, "permissiondenied")
          \/ MessageIncludes(error, "rate limit")
       THEN [json |-> [error |-> "Permission denied or rate limited",
                       detail |-> extractErrorMessage(error),
                       code |-> API_ERROR],
             text |-> <<"Permission denied or rate limited",
                        "Detail: " \o extractErrorMessage(error)>>]
       ELSE [json |-> [error |-> extractErrorMessage(error), code |-> API_ERROR],
             text |-> <<"Login failed: " \o extractErrorMessage(error)>>]

\* login finds !response.ok || !response.auth?.jwtToken in a 2xx body
authFailedReport ==
  [json |-> [error |-> "Authentication failed", code |-> API_ERROR],
   text |-> <<"Authentication failed">>]

\* Mutation: the catch reports a fixed text in place of the message.
listCatchReportFixed(cmd, error) ==
  [json |-> [error |-> "Request failed", code |-> API_ERROR],
   text |-> <<(IF cmd = "projects" THEN "Failed to list projects: "
               ELSE "Failed to list API keys: ") \o "Request failed">>]

\* The catch of listProjectsAction and of listApiKeysAction
listCatchReport(cmd, error) ==
  [json |-> [error |-> error.message, code |-> API_ERROR],
   text |-> <<(IF cmd = "projects" THEN "Failed to list projects: "
               ELSE "Failed to list API keys: ") \o error.message>>]

\* checkAuth finds no session
notLoggedInReport ==
  [json |-> [error |-> "Not logged in", code |-> NOT_LOGGED_IN],
   text |-> <<"Not logged in", "Run: sequence-builder login -k <your-private-key>">>]

\* isNaN(projectId)
invalidProjectIdReport ==
  [json |-> [error |-> "Invalid project ID", code |-> PROJECT_NOT_FOUND],
   text |-> <<"Invalid project ID">>]

\* createProjectAction finds no project in the body
createFailedReport ==
  [json |-> [error |-> "Failed to create project", code |-> API_ERROR],
   text |-> <<"Failed to create project">>]

\* getProjectAction finds no project in the body
projectNotFoundReport ==
  [json |-> [error |-> "Project not found", code |-> PROJECT_NOT_FOUND],
   text |-> <<"Project not found">>]

\* getDefaultKeyAction finds no accessKey in the body
noDefaultKeyReport ==
  [json |-> [error |-> "No default key found", code |-> PROJECT_NOT_FOUND],
   text |-> <<"No default API key found for this project.">>]

\* The catch of createProjectAction, getProjectAction and getDefaultKeyAction
dataCatchReport(cmd, error) ==
  [json |-> [error |-> error.message, code |-> API_ERROR],
   text |-> <<(CASE cmd = "projects create" -> "Failed to create project: "
                 [] cmd = "projects get" -> "Failed to get project: "
                 [] OTHER -> "Failed to get default API key: ") \o error.message>>]

\* The commands find the key malformed.
invalidKeyReport ==
  [json |-> [error |-> "Invalid private key format", code |-> INVALID_PRIVATE_KEY],
   text |-> <<"Invalid private key format">>]

\* What getPrivateKey prints before it exits: the stored key does not
\* decrypt, or there is none to take.
getPrivateKeyReport(optKey, passphrase, f) ==
  LET config == loadConfig(f)
  IN  IF /\ Truthy(config["encryptedPrivateKey"])
         /\ Truthy(config["encryptionSalt"])
         /\ Truthy(config["encryptionIv"])
         /\ Truthy(passphrase)
      THEN [json |-> [error |-> "Failed to decrypt stored key -- check SEQUENCE_PASSPHRASE",
                      code |-> INVALID_PRIVATE_KEY],
            text |-> <<"Failed to decrypt stored private key",
                       "Check that SEQUENCE_PASSPHRASE is correct">>]
      ELSE [json |-> [error |-> "No private key provided. Use --private-key or set SEQUENCE_PASSPHRASE env var",
                      code |-> INVALID_PRIVATE_KEY],
            text |-> <<"No private key available",
                       "Provide --private-key or set SEQUENCE_PASSPHRASE env var with a stored key">>]

\* Mutation: the token of the body is not looked at.
AuthFailedIgnoresToken(resp) == ~HttpOk(resp) \/ ~resp.ok

\* Mutation: the ok flag of the body is not looked at.
AuthFailedIgnoresOk(resp) == ~HttpOk(resp) \/ ~Truthy(resp.token)

\* apiRequest throws (transport failure, non-2xx), or login finds
\* !response.ok || !response.auth?.jwtToken in the body.
AuthFailed(resp) == ~HttpOk(resp) \/ ~resp.ok \/ ~Truthy(resp.token)

\* History: the exchange succeeded, that is the endpoint answered 2xx with
\* ok = true and a token.
AuthSucceeded(resp) ==
  resp.kind = "http" /\ resp.status = 200 /\ resp.ok /\ resp.token # Undefined

(***************************************************************************)
(* Invocations.                                                            *)
(***************************************************************************)
\* The processes invocations can run as.
Procs == {"p1", "p2"}

\* The processes that run in a specification of invocations run one after
\* the other.
SeqProcs == {"p1"}

Commands ==
  {"create-wallet", "login", "status", "projects", "apikeys",
   "wallet-info", "transfer"}

CustomUrl == "https://custom.example"

KeyOptions == {Undefined, "", KeyA, KeyShort}
EnvOptions == {"prod", "dev"}
ApiUrlOptions == {Undefined, CustomUrl}
Passphrases == {Undefined, "", "pw1", "pw2"}

\* randomBytes(32) and randomBytes(16) of the encryptPrivateKey call of the
\* n-th invocation: no two calls draw the same bytes.
RandomSalt(n) == "s" \o ToString(n)
RandomIv(n) == "i" \o ToString(n)

\* The commands that read process.env.SEQUENCE_PASSPHRASE.
ReadsPassphrase(cmd) == cmd \in {"create-wallet", "login", "wallet-info"}

\* The actions of projects and apikeys besides the lists.
DataCommands == {"projects create", "projects get", "apikeys default"}

HasKeyOption(cmd) ==
  cmd \in {"login", "wallet-info", "transfer", "projects create"}
HasEnvOption(cmd) == cmd \in {"login", "projects", "apikeys"} \cup DataCommands

FirstPc(cmd) ==
  CASE cmd = "create-wallet" -> "cw_generate"
    [] cmd = "login" -> "login_resolve"
    [] cmd = "status" -> "status"
    [] cmd = "projects" -> "pa_checkAuth"
    [] cmd = "apikeys" -> "pa_checkAuth"
    [] cmd = "wallet-info" -> "wi_resolve"
    [] cmd = "transfer" -> "tr_validate"
    [] cmd \in DataCommands -> "pd_checkAuth"

InvIdle ==
  [cmd |-> "idle", pc |-> "idle",
   optKey |-> Undefined, optEnv |-> Undefined, optApiUrl |-> Undefined,
   passphrase |-> Undefined,
   before |-> EmptyConfig,
   resolved |-> FALSE, privateKey |-> Undefined, decrypted |-> FALSE,
   authOk |-> FALSE,
   current |-> EmptyConfig, updates |-> NoUpdates, updated |-> EmptyConfig,
   stored |-> FALSE, loggedIn |-> FALSE,
   req |-> NoRequest, reqAt |-> 0, reqToken |-> Undefined, reqExpiry |-> Undefined,
   nproof |-> 0, nreq |-> 0, nsave |-> 0,
   resp |-> NoResponse, error |-> NoError, report |-> NoReport,
   exitCode |-> SUCCESS]

NoStore == [key |-> Undefined, passphrase |-> Undefined]

\* No function is called on its own.
NoCall == [args |-> [fn |-> "none"], returned |-> FALSE, result |-> Undefined]

Bundle(f) == [k \in KeyFields |-> loadConfig(f)[k]]

Init ==
  /\ file \in {NoFile, CorruptFile}
  /\ now = 0
  /\ inv = [p \in SeqProcs |-> InvIdle]
  /\ invCount = 0
  /\ lastStore = NoStore
  /\ call = NoCall

\* process.exit(code), or the handler returning (code SUCCESS)
Exit(r, code) == [r EXCEPT !.pc = "done", !.exitCode = code]

\* The clock advances.
Tick ==
  /\ now < MaxTime
  /\ now' = now + 1
  /\ UNCHANGED <<file, inv, invCount, lastStore, call>>

\* A command is invoked: commander parses the options, the environment
\* holds SEQUENCE_PASSPHRASE or not.  History: when tracked, the record the
\* invocation found is kept in before.
StartOf(p, commands, keyOptions, envOptions, apiUrlOptions, passphrases, tracked) ==
  /\ inv[p].pc = "idle"
  /\ invCount < MaxInvocations
  /\ \E cmd \in commands, k \in keyOptions, e \in envOptions,
        u \in apiUrlOptions, s \in passphrases :
       /\ ~HasKeyOption(cmd) => k = Undefined
       /\ cmd = "transfer" => k # Undefined
       /\ ~HasEnvOption(cmd) => (e = "prod" /\ u = Undefined)
       /\ ~ReadsPassphrase(cmd) => s = Undefined
       /\ inv' = [inv EXCEPT ![p] =
                    [InvIdle EXCEPT !.cmd = cmd, !.pc = FirstPc(cmd),
                                    !.optKey = k,
                                    !.optEnv = IF HasEnvOption(cmd) THEN e ELSE Undefined,
                                    !.optApiUrl = u,
                                    !.passphrase = s,
                                    !.before = IF tracked THEN loadConfig(file)
                                               ELSE EmptyConfig]]
  /\ invCount' = invCount + 1
  /\ UNCHANGED <<file, now, lastStore, call>>

Start(p) ==
  StartOf(p, Commands, KeyOptions, EnvOptions, ApiUrlOptions, Passphrases, FALSE)

(***************************************************************************)
(* updateConfig: loadConfig, then the merge and saveConfig.                *)
(***************************************************************************)
updateConfigLoad(r, updates, f) ==
  [r EXCEPT !.current = loadConfig(f), !.updates = updates]

\* Mutation: the updates are saved in place of the merged record.
updateConfigSaveUpdatesOnly(r) ==
  LET updated == Merge(EmptyConfig, r.updates)
  IN  [r EXCEPT !.updated = updated, !.nsave = r.nsave + 1]

updateConfigSave(r) ==
  LET updated == Merge(r.current, r.updates)
  IN  [r EXCEPT !.updated = updated, !.nsave = r.nsave + 1]

\* Mutation: the iv is left out of the fields that are written.
KeyUpdatesWithoutIv(data) ==
  [f \in KeyFields \ {"encryptionIv"} |->
     CASE f = "encryptedPrivateKey" -> data.encrypted
       [] f = "encryptionSalt" -> data.salt]

KeyUpdates(data) ==
  [f \in KeyFields |->
     CASE f = "encryptedPrivateKey" -> data.encrypted
       [] f = "encryptionSalt" -> data.salt
       [] f = "encryptionIv" -> data.iv]

\* storeEncryptedKey up to the read of the config file: FALSE is returned
\* without a passphrase; with one the key is encrypted and updateConfig
\* has loaded the record.
storeEncryptedKeyLoad(r, privateKey, salt, iv, f) ==
  updateConfigLoad(r, KeyUpdates(encryptPrivateKey(privateKey, r.passphrase, salt, iv)), f)

Step(p, r) ==
  /\ inv' = [inv EXCEPT ![p] = r]
  /\ UNCHANGED <<file, now, invCount, lastStore, call>>

\* Mutation: the updates are merged into the record on file at the save.
SaveOntoFile(p, r) ==
  /\ file' = saveConfig(Merge(loadConfig(file), r.updates))
  /\ inv' = [inv EXCEPT ![p] = r]
  /\ lastStore' = lastStore
  /\ UNCHANGED <<now, invCount, call>>

\* saveConfig of the pending updateConfig of p, which goes on as r.
Save(p, r) ==
  /\ file' = saveConfig(r.updated)
  /\ inv' = [inv EXCEPT ![p] = r]
  /\ lastStore' =
       IF KeyFields \subseteq DOMAIN r.updates
       THEN [key |-> r.privateKey, passphrase |-> r.passphrase]
       ELSE IF Bundle(saveConfig(r.updated)) # Bundle(file)
            THEN NoStore
            ELSE lastStore
  /\ UNCHANGED <<now, invCount, call>>

(***************************************************************************)
(* create-wallet                                                           *)
(***************************************************************************)
\* n numbers the encryptPrivateKey call.
CreateWalletGenerateOf(p, n) ==
  /\ inv[p].pc = "cw_generate"
  /\ \E k \in GeneratedKeys :
       LET salt == RandomSalt(n)
           iv == RandomIv(n)
           r == [inv[p] EXCEPT !.privateKey = k]
       IN  IF ~Truthy(r.passphrase)
           THEN Step(p, Exit([r EXCEPT !.stored = FALSE], SUCCESS))
           ELSE Step(p, [storeEncryptedKeyLoad(r, k, salt, iv, file)
                           EXCEPT !.pc = "cw_save"])

CreateWalletGenerate(p) == CreateWalletGenerateOf(p, invCount)

CreateWalletSave(p) ==
  /\ inv[p].pc = "cw_save"
  /\ Save(p, Exit([updateConfigSave(inv[p]) EXCEPT !.stored = TRUE], SUCCESS))

(***************************************************************************)
(* login                                                                   *)
(***************************************************************************)
\* getPrivateKey and the format check
ResolveKey(p, nextPc) ==
  LET got == getPrivateKey(inv[p].optKey, inv[p].passphrase, file)
      r == [inv[p] EXCEPT !.resolved = got.returns, !.privateKey = got.key,
                          !.decrypted = got.decrypted]
  IN  IF ~got.returns
      THEN Step(p, Exit([r EXCEPT !.report =
                           getPrivateKeyReport(inv[p].optKey, inv[p].passphrase, file)],
                        got.exitCode))
      ELSE IF ~isValidPrivateKey(got.key)
           THEN Step(p, Exit([r EXCEPT !.report = invalidKeyReport],
                             INVALID_PRIVATE_KEY))
           ELSE Step(p, [r EXCEPT !.pc = nextPc])

\* Mutation: login goes on with whatever key was resolved.
LoginResolveUnchecked(p) ==
  /\ inv[p].pc = "login_resolve"
  /\ LET got == getPrivateKey(inv[p].optKey, inv[p].passphrase, file)
         r == [inv[p] EXCEPT !.resolved = got.returns, !.privateKey = got.key,
                             !.decrypted = got.decrypted]
     IN  IF ~got.returns
         THEN Step(p, Exit(r, got.exitCode))
         ELSE Step(p, [r EXCEPT !.pc = "login_send"])

LoginResolve(p) ==
  /\ inv[p].pc = "login_resolve"
  /\ ResolveKey(p, "login_send")

\* The request that p sends, with the time it was built at and the session
\* the record held then.
Sent(r, req) ==
  [r EXCEPT !.req = req, !.reqAt = now,
            !.reqToken = loadConfig(file)["jwtToken"],
            !.reqExpiry = loadConfig(file)["jwtExpiresAt"],
            !.nreq = r.nreq + 1]

\* generateEthAuthProof(privateKey), then
\* getAuthToken(proofString, email, { env, apiUrl })
LoginSend(p) ==
  /\ inv[p].pc = "login_send"
  /\ Step(p, [Sent(inv[p], apiRequest("GetAuthToken", inv[p].optEnv,
                                      inv[p].optApiUrl, Undefined, file, now))
                EXCEPT !.pc = "login_await", !.nproof = inv[p].nproof + 1])

\* The answer to GetAuthToken; on success updateConfig loads the record.
\* History: of a command that failed on the answer resp, the answer, what
\* the request threw and what the command reported.
Failed(r, resp, error, report) ==
  [r EXCEPT !.resp = resp, !.error = error, !.report = report]

\* The answer to GetAuthToken is one of responses; keep tells whether the
\* history of a failure is kept.
LoginReceiveOf(p, responses, keep) ==
  /\ inv[p].pc = "login_await"
  /\ \E resp \in responses :
       IF AuthFailed(resp)
       THEN LET r == [inv[p] EXCEPT !.authOk = AuthSucceeded(resp)]
                error == Thrown(resp, now)
                report == IF error # NoError
                          THEN loginCatchReport(error) ELSE authFailedReport
            IN  Step(p, Exit(IF keep THEN Failed(r, resp, error, report) ELSE r,
                             API_ERROR))
       ELSE Step(p, [updateConfigLoad(
                       [inv[p] EXCEPT !.authOk = AuthSucceeded(resp),
                                      !.resp = resp],
                       [f \in {"jwtToken", "jwtExpiresAt", "environment", "apiUrl"} |->
                          CASE f = "jwtToken" -> resp.token
                            [] f = "jwtExpiresAt" -> resp.expiresAt
                            [] f = "environment" -> inv[p].optEnv
                            [] f = "apiUrl" -> inv[p].optApiUrl],
                       file)
                     EXCEPT !.pc = "login_save1"])

LoginReceive(p) == LoginReceiveOf(p, PlainResponses(invCount), FALSE)

\* saveConfig of the session
LoginSaveSession(p) ==
  /\ inv[p].pc = "login_save1"
  /\ Save(p, [updateConfigSave(inv[p]) EXCEPT !.pc = "login_store"])

\* storeEncryptedKey(privateKey) up to its read of the config file
\* n numbers the encryptPrivateKey call.
LoginStoreKeyLoadOf(p, n) ==
  /\ inv[p].pc = "login_store"
  /\ IF ~Truthy(inv[p].passphrase)
     THEN Step(p, Exit([inv[p] EXCEPT !.stored = FALSE], SUCCESS))
     ELSE Step(p, [storeEncryptedKeyLoad(inv[p], inv[p].privateKey,
                                         RandomSalt(n), RandomIv(n), file)
                     EXCEPT !.pc = "login_save2"])

LoginStoreKeyLoad(p) == LoginStoreKeyLoadOf(p, invCount)

LoginStoreKeySave(p) ==
  /\ inv[p].pc = "login_save2"
  /\ Save(p, Exit([updateConfigSave(inv[p]) EXCEPT !.stored = TRUE], SUCCESS))

(***************************************************************************)
(* status                                                                  *)
(***************************************************************************)
Status(p) ==
  /\ inv[p].pc = "status"
  /\ Step(p, Exit([inv[p] EXCEPT !.loggedIn = isLoggedIn(file, now)], SUCCESS))

(***************************************************************************)
(* projects (list) and apikeys (list)                                      *)
(***************************************************************************)
CheckAuth(p) ==
  /\ inv[p].pc = "pa_checkAuth"
  /\ IF ~isLoggedIn(file, now)
     THEN Step(p, Exit([inv[p] EXCEPT !.report = notLoggedInReport], NOT_LOGGED_IN))
     ELSE Step(p, [inv[p] EXCEPT !.loggedIn = TRUE, !.pc = "pa_send"])

ListSend(p) ==
  /\ inv[p].pc = "pa_send"
  /\ LET req == IF inv[p].cmd = "projects"
                THEN apiRequest("ListProjects", inv[p].optEnv, inv[p].optApiUrl,
                                Undefined, file, now)
                ELSE quotaApiRequest("ListAccessKeys", inv[p].optEnv,
                                     inv[p].optApiUrl, Undefined, file, now)
     IN  Step(p, [Sent(inv[p], req) EXCEPT !.pc = "pa_await"])

ListReceiveOf(p, responses, keep) ==
  /\ inv[p].pc = "pa_await"
  /\ \E resp \in ListResponses(responses) :
       LET error == Thrown(resp, now)
       IN  IF error # NoError
           THEN Step(p, Exit(IF keep
                             THEN Failed(inv[p], resp, error,
                                         listCatchReport(inv[p].cmd, error))
                             ELSE inv[p],
                             API_ERROR))
           ELSE Step(p, Exit([inv[p] EXCEPT !.resp = resp], SUCCESS))

ListReceive(p) == ListReceiveOf(p, PlainResponses(invCount), FALSE)

(***************************************************************************)
(* wallet-info                                                             *)
(***************************************************************************)
WalletInfoResolve(p) ==
  /\ inv[p].pc = "wi_resolve"
  /\ ResolveKey(p, "wi_await")

\* Session.singleSigner resolves or rejects.
WalletInfoSession(p) ==
  /\ inv[p].pc = "wi_await"
  /\ \E code \in {SUCCESS, GENERAL_ERROR} : Step(p, Exit(inv[p], code))

(***************************************************************************)
(* transfer                                                                *)
(***************************************************************************)
TransferValidate(p) ==
  /\ inv[p].pc = "tr_validate"
  /\ LET r == [inv[p] EXCEPT !.privateKey = inv[p].optKey]
     IN  IF ~isValidPrivateKey(inv[p].optKey)
         THEN Step(p, Exit([r EXCEPT !.report = invalidKeyReport], INVALID_PRIVATE_KEY))
         ELSE Step(p, [r EXCEPT !.pc = "tr_await"])

\* The session, the transaction and its receipt, or a failure of one.
TransferSend(p) ==
  /\ inv[p].pc = "tr_await"
  /\ \E code \in {SUCCESS, GENERAL_ERROR, INSUFFICIENT_FUNDS} :
       Step(p, Exit(inv[p], code))

\* The process of a finished invocation is gone.
Terminate(p) ==
  /\ inv[p].pc = "done"
  /\ Step(p, InvIdle)

(***************************************************************************)
(* Specification: invocations one after the other.                         *)
(***************************************************************************)
ProcStep(p) ==
  \/ Start(p)
  \/ CreateWalletGenerate(p)
  \/ CreateWalletSave(p)
  \/ LoginResolve(p)
  \/ LoginSend(p)
  \/ LoginReceive(p)
  \/ LoginSaveSession(p)
  \/ LoginStoreKeyLoad(p)
  \/ LoginStoreKeySave(p)
  \/ Status(p)
  \/ CheckAuth(p)
  \/ ListSend(p)
  \/ ListReceive(p)
  \/ WalletInfoResolve(p)
  \/ WalletInfoSession(p)
  \/ TransferValidate(p)
  \/ TransferSend(p)
  \/ Terminate(p)

Next == Tick \/ \E p \in SeqProcs : ProcStep(p)

Spec == Init /\ [][Next]_vars

(***************************************************************************)
(* Specification: the commands that write or read the stored bundle        *)
(* (create-wallet, login, wallet-info; login against the production API),  *)
(* and the stored bundle can be altered on disk between invocations (a     *)
(* byte of the ciphertext or of the tag flipped).                          *)
(***************************************************************************)
KeyCommands == {"create-wallet", "login", "wallet-info"}

StartKey(p) ==
  StartOf(p, KeyCommands, KeyOptions, {"prod"}, {Undefined}, Passphrases, FALSE)

ProcStepKey(p) ==
  \/ StartKey(p)
  \/ CreateWalletGenerate(p)
  \/ CreateWalletSave(p)
  \/ LoginResolve(p)
  \/ LoginSend(p)
  \/ LoginReceive(p)
  \/ LoginSaveSession(p)
  \/ LoginStoreKeyLoad(p)
  \/ LoginStoreKeySave(p)
  \/ WalletInfoResolve(p)
  \/ WalletInfoSession(p)
  \/ Terminate(p)

Flip(hex) == "~" \o hex

AlterBundle ==
  /\ \A p \in DOMAIN inv : inv[p].pc = "idle"
  /\ lastStore # NoStore
  /\ LET config == loadConfig(file)
         key == scrypt(lastStore.passphrase, config["encryptionSalt"])
         ct == GcmCiphertext(key, config["encryptionIv"], lastStore.key)
         tag == GcmTag(key, config["encryptionIv"], lastStore.key)
     IN  \E altered \in {Flip(ct) \o ":" \o tag, ct \o ":" \o Flip(tag)} :
           file' = saveConfig([config EXCEPT !["encryptedPrivateKey"] = altered])
  /\ lastStore' = NoStore
  /\ UNCHANGED <<now, inv, invCount, call>>

NextAltered == Tick \/ (\E p \in SeqProcs : ProcStepKey(p)) \/ AlterBundle

SpecAltered == Init /\ [][NextAltered]_vars

(***************************************************************************)
(* Specification: the commands that call the remote API (login with -k,    *)
(* projects, apikeys), against every answer of the API: non-2xx answers    *)
(* come with and without a Retry-After header and text.                    *)
(***************************************************************************)
ApiCommands == {"login", "projects", "apikeys"}

StartApi(p) ==
  StartOf(p, ApiCommands, {Undefined, KeyA}, EnvOptions, ApiUrlOptions, {Undefined}, FALSE)

LoginReceiveAny(p) == LoginReceiveOf(p, Responses(invCount), TRUE)

ListReceiveAny(p) == ListReceiveOf(p, Responses(invCount), TRUE)

ProcStepApi(p) ==
  \/ StartApi(p)
  \/ LoginResolve(p)
  \/ LoginSend(p)
  \/ LoginReceiveAny(p)
  \/ LoginSaveSession(p)
  \/ LoginStoreKeyLoad(p)
  \/ CheckAuth(p)
  \/ ListSend(p)
  \/ ListReceiveAny(p)
  \/ Terminate(p)

NextApi == Tick \/ \E p \in SeqProcs : ProcStepApi(p)

SpecApi == Init /\ [][NextApi]_vars

(***************************************************************************)
(* projects create, projects get, apikeys default.  Of a 2xx body the      *)
(* actions read whether it holds the project or the access key asked for:  *)
(* the ok flag of the response stands for that.                            *)
(***************************************************************************)
\* Of the answers rs, those to a request for a project or an access key.
DataResponses(rs) ==
  {resp \in rs :
     resp.status = 200 => (resp.token = Undefined /\ resp.expiresAt = Undefined)}

\* checkAuth(!!json), then the isNaN(projectId) check of the actions that
\* take a project id.
DataCheckAuth(p) ==
  /\ inv[p].pc = "pd_checkAuth"
  /\ IF ~isLoggedIn(file, now)
     THEN Step(p, Exit([inv[p] EXCEPT !.report = notLoggedInReport], NOT_LOGGED_IN))
     ELSE \E idIsNumber \in BOOLEAN :
            IF inv[p].cmd # "projects create" /\ ~idIsNumber
            THEN Step(p, Exit([inv[p] EXCEPT !.loggedIn = TRUE,
                                             !.report = invalidProjectIdReport],
                              PROJECT_NOT_FOUND))
            ELSE /\ inv[p].cmd = "projects create" => idIsNumber
                 /\ Step(p, [inv[p] EXCEPT !.loggedIn = TRUE, !.pc = "pd_send"])

\* createProject, getProject or getDefaultAccessKey up to its fetch
DataSend(p) ==
  /\ inv[p].pc = "pd_send"
  /\ LET req == CASE inv[p].cmd = "projects create" ->
                      apiRequest("CreateProject", inv[p].optEnv, inv[p].optApiUrl,
                                 Undefined, file, now)
                  [] inv[p].cmd = "projects get" ->
                      apiRequest("GetProject", inv[p].optEnv, inv[p].optApiUrl,
                                 Undefined, file, now)
                  [] OTHER ->
                      quotaApiRequest("GetDefaultAccessKey", inv[p].optEnv,
                                      inv[p].optApiUrl, Undefined, file, now)
     IN  Step(p, [Sent(inv[p], req) EXCEPT !.pc = "pd_await"])

\* The answer: the catch on a throw; without the project or the key in the
\* body createProjectAction and getProjectAction exit and
\* getDefaultKeyAction returns; with it createProjectAction goes on to the
\* default access key and the others return.
DataReceive(p) ==
  /\ inv[p].pc = "pd_await"
  /\ \E resp \in DataResponses(PlainResponses(invCount)) :
       LET error == Thrown(resp, now)
           r == [inv[p] EXCEPT !.resp = resp, !.error = error]
       IN  IF error # NoError
           THEN Step(p, Exit([r EXCEPT !.report = dataCatchReport(inv[p].cmd, error)],
                             API_ERROR))
           ELSE IF ~resp.ok
                THEN CASE inv[p].cmd = "projects create" ->
                            Step(p, Exit([r EXCEPT !.report = createFailedReport],
                                         API_ERROR))
                       [] inv[p].cmd = "projects get" ->
                            Step(p, Exit([r EXCEPT !.report = projectNotFoundReport],
                                         PROJECT_NOT_FOUND))
                       [] OTHER ->
                            Step(p, Exit([r EXCEPT !.report = noDefaultKeyReport],
                                         SUCCESS))
                ELSE IF inv[p].cmd = "projects create"
                     THEN Step(p, [r EXCEPT !.pc = "pd_send2"])
                     ELSE Step(p, Exit(r, SUCCESS))

\* createProjectAction: getDefaultAccessKey(response.project.id, ...)
CreateSendKey(p) ==
  /\ inv[p].pc = "pd_send2"
  /\ Step(p, [Sent(inv[p], quotaApiRequest("GetDefaultAccessKey", inv[p].optEnv,
                                           inv[p].optApiUrl, Undefined, file, now))
                EXCEPT !.pc = "pd_await2"])

\* Its answer: a throw is caught and dropped, the project was created.
CreateReceiveKey(p) ==
  /\ inv[p].pc = "pd_await2"
  /\ \E resp \in DataResponses(PlainResponses(invCount)) :
       Step(p, Exit([inv[p] EXCEPT !.resp = resp, !.error = Thrown(resp, now)],
                    SUCCESS))

(***************************************************************************)
(* Specification: login, with and without -k and SEQUENCE_PASSPHRASE, and  *)
(* every action of projects and apikeys.                                   *)
(***************************************************************************)
SessionCommands == {"login", "projects", "apikeys"} \cup DataCommands

StartSession(p) ==
  StartOf(p, SessionCommands, {Undefined, KeyA}, EnvOptions, ApiUrlOptions,
          {Undefined, "pw1"}, FALSE)

LoginReceiveKept(p) == LoginReceiveOf(p, PlainResponses(invCount), TRUE)

ListReceiveKept(p) == ListReceiveOf(p, PlainResponses(invCount), TRUE)

ProcStepSession(p) ==
  \/ StartSession(p)
  \/ LoginResolve(p)
  \/ LoginSend(p)
  \/ LoginReceiveKept(p)
  \/ LoginSaveSession(p)
  \/ LoginStoreKeyLoad(p)
  \/ LoginStoreKeySave(p)
  \/ CheckAuth(p)
  \/ ListSend(p)
  \/ ListReceiveKept(p)
  \/ DataCheckAuth(p)
  \/ DataSend(p)
  \/ DataReceive(p)
  \/ CreateSendKey(p)
  \/ CreateReceiveKey(p)
  \/ Terminate(p)

NextSession == Tick \/ \E p \in SeqProcs : ProcStepSession(p)

SpecSession == Init /\ [][NextSession]_vars

(***************************************************************************)
(* Specification: the commands that take a private key (create-wallet,     *)
(* login, wallet-info, transfer; login against the production API), and    *)
(* transfer can be invoked without -k.                                     *)
(***************************************************************************)
KeyUsers == {"login", "wallet-info", "transfer"}

StartKeyUser(p) ==
  StartOf(p, KeyCommands \cup KeyUsers, KeyOptions, {"prod"}, {Undefined}, Passphrases, FALSE)

\* transfer without -k: commander finds the required option missing and
\* the exitOverride callback exits with 1 before the action runs.  The
\* passphrase is the one the environment of the invocation holds.
TransferRejected(p) ==
  /\ inv[p].pc = "idle"
  /\ invCount < MaxInvocations
  /\ \E s \in Passphrases :
       inv' = [inv EXCEPT ![p] =
                 Exit([InvIdle EXCEPT !.cmd = "transfer", !.passphrase = s],
                      GENERAL_ERROR)]
  /\ invCount' = invCount + 1
  /\ UNCHANGED <<file, now, lastStore, call>>

ProcStepKeyUser(p) ==
  \/ StartKeyUser(p)
  \/ TransferRejected(p)
  \/ CreateWalletGenerate(p)
  \/ CreateWalletSave(p)
  \/ LoginResolve(p)
  \/ LoginSend(p)
  \/ LoginReceive(p)
  \/ LoginSaveSession(p)
  \/ LoginStoreKeyLoad(p)
  \/ LoginStoreKeySave(p)
  \/ WalletInfoResolve(p)
  \/ WalletInfoSession(p)
  \/ TransferValidate(p)
  \/ TransferSend(p)
  \/ Terminate(p)

NextKeyUser == Tick \/ \E p \in SeqProcs : ProcStepKeyUser(p)

SpecKeyUser == Init /\ [][NextKeyUser]_vars

(***************************************************************************)
(* Specification: the commands that write the record (create-wallet and    *)
(* login against the production API), and an invocation can be interrupted *)
(* (killed by a signal) between any two of its steps.                      *)
(***************************************************************************)
WriterCommands == {"create-wallet", "login"}

StartWriter(p) ==
  StartOf(p, WriterCommands, {Undefined, KeyA}, {"prod"}, {Undefined},
          {Undefined, "pw1"}, TRUE)

\* The process is killed: nothing of it is left but what it wrote.
Interrupt(p) ==
  /\ inv[p].pc \notin {"idle", "done"}
  /\ Step(p, InvIdle)

ProcStepWriter(p) ==
  \/ StartWriter(p)
  \/ CreateWalletGenerate(p)
  \/ CreateWalletSave(p)
  \/ LoginResolve(p)
  \/ LoginSend(p)
  \/ LoginReceive(p)
  \/ LoginSaveSession(p)
  \/ LoginStoreKeyLoad(p)
  \/ LoginStoreKeySave(p)
  \/ Interrupt(p)
  \/ Terminate(p)

NextWriter == Tick \/ \E p \in SeqProcs : ProcStepWriter(p)

SpecWriter == Init /\ [][NextWriter]_vars

(***************************************************************************)
(* Specification: two invocations at the same time, a login with -k in one *)
(* process and a create-wallet under a passphrase in the other; the steps  *)
(* of the two interleave in any order.  Each process draws its own random  *)
(* bytes: the call number is made of the process and its invocation.       *)
(***************************************************************************)
CallNumber(p) == IF p = "p1" THEN 2 * invCount ELSE 2 * invCount + 1

MaxCallNumber == 2 * MaxInvocations + 1

InitPair ==
  /\ file \in {NoFile, CorruptFile}
  /\ now = 0
  /\ inv = [p \in Procs |-> InvIdle]
  /\ invCount = 0
  /\ lastStore = NoStore
  /\ call = NoCall

StartPair(p) ==
  IF p = "p1"
  THEN StartOf(p, {"login"}, {KeyA}, {"prod"}, {Undefined}, {Undefined, "pw1"}, FALSE)
  ELSE StartOf(p, {"create-wallet"}, {Undefined}, {"prod"}, {Undefined}, {"pw1"}, FALSE)

ProcStepPair(p) ==
  \/ StartPair(p)
  \/ CreateWalletGenerateOf(p, CallNumber(p))
  \/ CreateWalletSave(p)
  \/ LoginResolve(p)
  \/ LoginSend(p)
  \/ LoginReceive(p)
  \/ LoginSaveSession(p)
  \/ LoginStoreKeyLoadOf(p, CallNumber(p))
  \/ LoginStoreKeySave(p)
  \/ Terminate(p)

NextPair == Tick \/ \E p \in Procs : ProcStepPair(p)

SpecPair == InitPair /\ [][NextPair]_vars

(***************************************************************************)
(* Specification: the waits of an invocation.  The steps the process takes *)
(* by itself are taken sooner or later; an answer of a remote endpoint is  *)
(* a step of the endpoint, which may never come.  transfer is followed     *)
(* through its awaits: the session, the contract reads and the submission  *)
(* carry no timeout, the wait for the receipt carries one.                 *)
(***************************************************************************)
WaitingCommands == {"login", "projects", "apikeys", "transfer"}

StartWaiting(p) ==
  StartOf(p, WaitingCommands, {Undefined, KeyA}, {"prod"}, {Undefined}, {Undefined}, FALSE)

\* Session.singleSigner, contract.decimals, contract.symbol,
\* populateTransaction and signer.sendTransaction have answered: the
\* transaction is submitted, or one of them failed and the catch exits.
TransferAnswer(p) ==
  /\ inv[p].pc = "tr_await"
  /\ \/ Step(p, [inv[p] EXCEPT !.pc = "tr_wait"])
     \/ \E code \in {GENERAL_ERROR, INSUFFICIENT_FUNDS} : Step(p, Exit(inv[p], code))

\* txResponse.wait(undefined, 30000): the receipt, no receipt, or the
\* timeout, which throws into the catch.
TransferWait(p) ==
  /\ inv[p].pc = "tr_wait"
  /\ \E code \in {SUCCESS, GENERAL_ERROR} : Step(p, Exit(inv[p], code))

\* The steps the process takes by itself.
OwnStep(p) ==
  \/ LoginResolve(p)
  \/ LoginSend(p)
  \/ LoginSaveSession(p)
  \/ LoginStoreKeyLoad(p)
  \/ CheckAuth(p)
  \/ ListSend(p)
  \/ TransferValidate(p)
  \/ TransferWait(p)
  \/ Terminate(p)

\* The steps that are answers of a remote endpoint.
AnswerStep(p) ==
  \/ LoginReceive(p)
  \/ ListReceive(p)
  \/ TransferAnswer(p)

NextWaiting ==
  \/ Tick
  \/ \E p \in SeqProcs : StartWaiting(p)
  \/ \E p \in SeqProcs : OwnStep(p)
  \/ \E p \in SeqProcs : AnswerStep(p)

SpecWaiting ==
  /\ Init
  /\ [][NextWaiting]_vars
  /\ \A p \in SeqProcs : WF_vars(OwnStep(p))

(***************************************************************************)
(* Specification: one call of a function of the libraries on arguments     *)
(* drawn from the sets below, at any time and over any config file.        *)
(***************************************************************************)
\* Status codes: those ApiError names, their neighbours, and others.
StatusCodes == {200, 400, 401, 402, 403, 404, 428, 429, 430, 500, 503}

\* Retry-After values: none, the empty string, seconds, seconds followed by
\* other characters ("5, 5" of a repeated header, "1.5"), HTTP-dates and
\* other text.
RetryAfterHeaders ==
  {NoHeader, EmptyHeader, TextHeader}
  \cup {Digits(n, rest) : n \in {0, 1, 5, 120}, rest \in {"", ", 5", ".5"}}
  \cup {HttpDate(sec * MS_PER_SECOND) : sec \in 0..MaxTime}

\* The clock at a call: a whole second or a millisecond after it.
CallTimes == {sec * MS_PER_SECOND + ms : sec \in 0..MaxTime, ms \in {0, 1}}

\* The config files at a call.
CallFiles ==
  {NoFile, CorruptFile}
  \cup {saveConfig([EmptyConfig EXCEPT !["environment"] = e]) :
          e \in {Undefined, "", "prod", "dev", "staging"}}

Calls ==
  {[fn |-> "ApiError", statusCode |-> st, errorBody |-> b, retryAfter |-> ra] :
     st \in StatusCodes, b \in ErrorBodies,
     ra \in {NullNumber, Number(0), Number(5)}}
  \cup
  {[fn |-> "parseRetryAfter", header |-> h] : h \in RetryAfterHeaders}
  \cup
  {[fn |-> "getApiUrl", env |-> e, apiUrl |-> u] :
     e \in {Undefined, "", "prod", "dev", "staging"},
     u \in {Undefined, "", CustomUrl}}
  \cup
  {[fn |-> "isValidPrivateKey", privateKey |-> k] : k \in KeyStrings \cup {""}}

\* The call with its result once it has returned.
Pending(c) == [args |-> c, returned |-> FALSE, result |-> Undefined]

Returned(c, result) == [args |-> c, returned |-> TRUE, result |-> result]

InitCalls ==
  /\ file \in CallFiles
  /\ now \in CallTimes
  /\ inv = [p \in SeqProcs |-> InvIdle]
  /\ invCount = 0
  /\ lastStore = NoStore
  /\ call \in {Pending(c) : c \in Calls}

Return(fn, result) ==
  /\ ~call.returned
  /\ call.args.fn = fn
  /\ call' = Returned(call.args, result)
  /\ UNCHANGED <<file, now, inv, invCount, lastStore>>

CallApiError ==
  /\ call.args.fn = "ApiError"
  /\ Return("ApiError",
            ApiError(call.args.statusCode, call.args.errorBody, call.args.retryAfter))

CallParseRetryAfter ==
  /\ call.args.fn = "parseRetryAfter"
  /\ Return("parseRetryAfter", parseRetryAfter(call.args.header, now))

CallGetApiUrl ==
  /\ call.args.fn = "getApiUrl"
  /\ Return("getApiUrl", getApiUrl(call.args.env, call.args.apiUrl, file))

CallIsValidPrivateKey ==
  /\ call.args.fn = "isValidPrivateKey"
  /\ Return("isValidPrivateKey", isValidPrivateKey(call.args.privateKey))

NextCalls ==
  CallApiError \/ CallParseRetryAfter \/ CallGetApiUrl \/ CallIsValidPrivateKey

SpecCalls == InitCalls /\ [][NextCalls]_vars

(***************************************************************************)
(* Properties.                                                             *)
(***************************************************************************)

\* C1: getValidJwtToken returns the stored token only when jwtToken and
\* jwtExpiresAt are both present and the recorded expiry is strictly later
\* than the current time; in every other case (a field missing, expiry in
\* the past or equal to now, expiry that is no timestamp) it returns null.
C1_TokenOnlyBeforeExpiry ==
  LET config == loadConfig(file)
      expiry == DateParse(config["jwtExpiresAt"])
      live == /\ config["jwtToken"] # Undefined
              /\ config["jwtExpiresAt"] # Undefined
              /\ expiry.valid
              /\ expiry.ms > now
  IN  getValidJwtToken(file, now) = IF live THEN config["jwtToken"] ELSE Null

\* C2: a request built by apiRequest or quotaApiRequest carries no
\* Authorization header, or carries the bearer token of a session whose
\* recorded expiry is strictly later than the time the header was built.
C2_NoExpiredTokenSent ==
  \A p \in DOMAIN inv :
    inv[p].nreq > 0 =>
      \/ inv[p].req.authorization = Undefined
      \/ /\ inv[p].req.authorization = Bearer(inv[p].reqToken)
         /\ DateParse(inv[p].reqExpiry).valid
         /\ DateParse(inv[p].reqExpiry).ms > inv[p].reqAt

\* C3: no field of the persisted record holds a private key in plaintext,
\* whether the key was generated by create-wallet or given with -k.
C3_NoPlaintextKeyInRecord ==
  \A f \in Fields : file.cfg[f] \notin Plaintexts

\* C3 witness: a login has stored the key it was given.
C3_Witness ==
  \E p \in DOMAIN inv :
    /\ inv[p].cmd = "login" /\ inv[p].pc = "done" /\ inv[p].stored
    /\ inv[p].privateKey = KeyA
    /\ Truthy(file.cfg["encryptedPrivateKey"])

\* C4: an explicit private key given to getPrivateKey is returned
\* unchanged, whatever the record holds and whether or not a passphrase is
\* set, and the stored key is not decrypted.  (An empty -k value is no key:
\* the code treats it as not given.)
C4_ExplicitKeyReturned ==
  \A p \in DOMAIN inv :
    (/\ inv[p].cmd \in {"login", "wallet-info"}
     /\ inv[p].pc \notin {"login_resolve", "wi_resolve"}
     /\ Truthy(inv[p].optKey))
    => /\ inv[p].resolved
       /\ inv[p].privateKey = inv[p].optKey
       /\ ~inv[p].decrypted

\* C4 witness: an explicit key was resolved while the record held another
\* key that the passphrase of the invocation decrypts.
C4_Witness ==
  \E p \in DOMAIN inv :
    /\ inv[p].cmd = "login" /\ inv[p].pc = "login_send"
    /\ inv[p].optKey = KeyA
    /\ lastStore.key = KeyG
    /\ inv[p].passphrase = lastStore.passphrase
    /\ decryptPrivateKey(StoredData(loadConfig(file)), inv[p].passphrase).ok

HasBundle(f) == \A k \in KeyFields : Truthy(loadConfig(f)[k])

ResolvePcs == {"login_resolve", "wi_resolve"}
StoreBeginPcs == {"cw_generate", "login_store"}
StoreSavePcs == {"cw_save", "login_save2"}
SavePcs == {"cw_save", "login_save1", "login_save2"}

\* The step of p that ends getPrivateKey without a key: the process is
\* over with INVALID_PRIVATE_KEY, has sent nothing and has written nothing.
ExitsWithoutKey(p) ==
  /\ inv'[p].pc = "done"
  /\ inv'[p].exitCode = INVALID_PRIVATE_KEY
  /\ ~inv'[p].resolved
  /\ inv'[p].privateKey = Undefined
  /\ inv'[p].nreq = 0
  /\ inv'[p].nsave = 0
  /\ file' = file

\* C5: without an explicit key, with a passphrase and a stored bundle that
\* does not decrypt (the passphrase is not the one the bundle was encrypted
\* with, or the ciphertext or the tag was altered), getPrivateKey ends the
\* command with exit code 11: no key is returned, no request is sent and
\* the record is not written.
C5_DecryptFailureExits ==
  [][\A p \in DOMAIN inv :
       (/\ inv[p].pc \in ResolvePcs
        /\ inv'[p].pc # inv[p].pc
        /\ ~Truthy(inv[p].optKey)
        /\ Truthy(inv[p].passphrase)
        /\ HasBundle(file)
        /\ (lastStore = NoStore \/ inv[p].passphrase # lastStore.passphrase))
       => ExitsWithoutKey(p)]_vars

\* C5 witness: a login without -k has ended with 11 on a bundle that was
\* altered on disk.
C5_Witness ==
  \E p \in DOMAIN inv :
    /\ inv[p].cmd = "login" /\ inv[p].pc = "done"
    /\ inv[p].exitCode = INVALID_PRIVATE_KEY
    /\ ~Truthy(inv[p].optKey)
    /\ Truthy(inv[p].passphrase)
    /\ HasBundle(file)
    /\ lastStore = NoStore

\* C6: without an explicit key and without a decryptable stored key (no
\* passphrase, or no bundle in the record), getPrivateKey ends the command
\* with exit code 11 before any request is sent and before the record is
\* written.
C6_NoKeyExits ==
  [][\A p \in DOMAIN inv :
       (/\ inv[p].pc \in ResolvePcs
        /\ inv'[p].pc # inv[p].pc
        /\ ~Truthy(inv[p].optKey)
        /\ (~Truthy(inv[p].passphrase) \/ ~HasBundle(file)))
       => ExitsWithoutKey(p)]_vars

\* C6 witness: login without -k, without passphrase and without a stored
\* key has ended with 11.
C6_Witness ==
  \E p \in DOMAIN inv :
    /\ inv[p].cmd = "login" /\ inv[p].pc = "done"
    /\ inv[p].exitCode = INVALID_PRIVATE_KEY
    /\ inv[p].optKey = Undefined
    /\ inv[p].passphrase = Undefined
    /\ ~HasBundle(file)
    /\ inv[p].nreq = 0

\* C7: after storeEncryptedKey(k) under the passphrase s, and while that
\* bundle is on file, getPrivateKey without an explicit key and with the
\* passphrase s returns k.
C7_StoreThenResolve ==
  [][\A p \in DOMAIN inv :
       (/\ inv[p].pc \in ResolvePcs
        /\ inv'[p].pc # inv[p].pc
        /\ ~Truthy(inv[p].optKey)
        /\ lastStore # NoStore
        /\ inv[p].passphrase = lastStore.passphrase)
       => /\ inv'[p].resolved
          /\ inv'[p].decrypted
          /\ inv'[p].privateKey = lastStore.key]_vars

\* C7 witness: a command without -k goes on with the key that was stored.
C7_Witness ==
  \E p \in DOMAIN inv :
    /\ inv[p].pc \in {"login_send", "wi_await"}
    /\ ~Truthy(inv[p].optKey)
    /\ inv[p].decrypted
    /\ lastStore # NoStore
    /\ inv[p].privateKey = lastStore.key

\* C8: storeEncryptedKey returns true and persists a new bundle exactly
\* when the passphrase is non-empty; without one it returns false and the
\* record is as it was.  When it stores, the three key fields change and
\* the other fields keep their values.
C8_StoreIffPassphrase ==
  [][\A p \in DOMAIN inv :
       /\ (inv[p].pc \in StoreBeginPcs /\ inv'[p].pc # inv[p].pc)
          => /\ file' = file
             /\ IF Truthy(inv[p].passphrase)
                THEN inv'[p].pc \in StoreSavePcs
                ELSE inv'[p].pc = "done" /\ ~inv'[p].stored
       /\ (inv[p].pc \in StoreSavePcs /\ inv'[p].pc # inv[p].pc)
          => /\ Truthy(inv[p].passphrase)
             /\ inv'[p].stored
             /\ file'.kind = "json"
             /\ HasBundle(file')
             /\ Bundle(file') # Bundle(file)
             /\ \A f \in Fields \ KeyFields : file'.cfg[f] = loadConfig(file)[f]]_vars

\* C8 witness: login has stored the key and the session it wrote before is
\* still in the record.
C8_Witness ==
  \E p \in DOMAIN inv :
    /\ inv[p].cmd = "login" /\ inv[p].pc = "done" /\ inv[p].stored
    /\ HasBundle(file)
    /\ Truthy(file.cfg["jwtToken"])

\* C9: the key fields of the record change only in a create-wallet
\* invocation or in a login invocation whose exchange succeeded.
C9_BundleWriters ==
  [][Bundle(file') # Bundle(file)
       => \E p \in DOMAIN inv :
            /\ inv[p].pc \notin {"idle", "done"}
            /\ \/ inv[p].cmd = "create-wallet"
               \/ inv[p].cmd = "login" /\ inv[p].authOk]_vars

\* C9 witness: a login has failed at the exchange with a bundle on file.
C9_Witness ==
  \E p \in DOMAIN inv :
    /\ inv[p].cmd = "login" /\ inv[p].pc = "done"
    /\ inv[p].exitCode = API_ERROR
    /\ inv[p].nreq = 1
    /\ ~inv[p].authOk
    /\ HasBundle(file)

\* C10: updateConfig(updates) persists and returns a record that holds,
\* for a field named in updates, the value given there and, for any other
\* field, the value of the record that was loaded.
C10_UpdateConfigFrame ==
  [][\A p \in DOMAIN inv :
       (inv[p].pc \in SavePcs /\ inv'[p].pc # inv[p].pc)
       => /\ file'.kind = "json"
          /\ \A f \in Fields :
               file'.cfg[f] = IF f \in DOMAIN inv[p].updates
                              THEN inv[p].updates[f]
                              ELSE inv[p].current[f]
          /\ inv'[p].updated = file'.cfg]_vars

\* C10 witness: login has written a session into a record that held a
\* bundle.
C10_Witness ==
  \E p \in DOMAIN inv :
    /\ inv[p].pc = "login_store"
    /\ HasBundle(file)
    /\ file.cfg["jwtToken"] = inv[p].updates["jwtToken"]

\* C11: loadConfig returns the default record { environment: 'prod' } when
\* the config file is absent or unparseable, and the caller goes on in both
\* cases alike: no session is found, updateConfig merges into the default
\* record, status ends normally and reports that nobody is logged in.
C11_CorruptAsAbsent ==
  /\ loadConfig(NoFile) = DefaultConfig
  /\ loadConfig(CorruptFile) = DefaultConfig
  /\ file.kind # "json" =>
       /\ getValidJwtToken(file, now) = Null
       /\ \A e \in EnvOptions \cup {Undefined} :
            getApiUrl(e, Undefined, file) = IF e = "dev" THEN DevUrl ELSE ProdUrl
       /\ \A p \in DOMAIN inv :
            /\ inv[p].pc \in SavePcs => inv[p].current = DefaultConfig
            /\ (inv[p].cmd = "status" /\ inv[p].pc = "done")
               => (inv[p].exitCode = SUCCESS /\ ~inv[p].loggedIn)

\* C11 witness: create-wallet has loaded an unparseable file and is about
\* to save the merged record.
C11_Witness ==
  \E p \in DOMAIN inv :
    /\ file = CorruptFile
    /\ inv[p].pc = "cw_save"
    /\ inv[p].current = DefaultConfig

\* C12: a login whose resolved key is not a well-formed private key ends
\* with INVALID_PRIVATE_KEY in the step that resolved the key: no proof
\* was built, no request was sent, the record is as it was; and a login
\* that has built a proof or sent a request holds a well-formed key.
C12_InvalidKeyStopsLogin ==
  [][\A p \in DOMAIN inv :
       /\ (/\ inv[p].cmd = "login" /\ inv[p].pc = "login_resolve"
           /\ inv'[p].pc # "login_resolve"
           /\ inv'[p].resolved /\ inv'[p].privateKey \notin ValidKeys)
          => /\ inv'[p].pc = "done"
             /\ inv'[p].exitCode = INVALID_PRIVATE_KEY
             /\ inv'[p].nproof = 0
             /\ inv'[p].nreq = 0
             /\ inv'[p].nsave = 0
             /\ file' = file
       /\ (inv'[p].cmd = "login" /\ (inv'[p].nproof > 0 \/ inv'[p].nreq > 0))
          => inv'[p].privateKey \in ValidKeys]_vars

\* C12 witness: login -k with a key that is too short has ended.
C12_Witness ==
  \E p \in DOMAIN inv :
    /\ inv[p].cmd = "login" /\ inv[p].pc = "done"
    /\ inv[p].resolved /\ inv[p].privateKey = KeyShort
    /\ inv[p].exitCode = INVALID_PRIVATE_KEY
    /\ inv[p].nreq = 0

SessionFields == {"jwtToken", "jwtExpiresAt"}

\* C13: the save of a login that received token T and expiry E leaves
\* jwtToken = T, jwtExpiresAt = E and the environment of that login in the
\* record, in place of whatever session was there; no other step changes
\* the session; and while the record holds a token and an expiry that is a
\* timestamp, isLoggedIn is true strictly before the expiry and false at
\* and after it.
C13_SessionAfterLogin ==
  [][/\ \A p \in DOMAIN inv :
          (inv[p].pc = "login_save1" /\ inv'[p].pc # "login_save1")
          => /\ AuthSucceeded(inv[p].resp)
             /\ loadConfig(file')["jwtToken"] = inv[p].resp.token
             /\ loadConfig(file')["jwtExpiresAt"] = inv[p].resp.expiresAt
             /\ loadConfig(file')["environment"] = inv[p].optEnv
     /\ (\E f \in SessionFields : loadConfig(file')[f] # loadConfig(file)[f])
        => \E p \in DOMAIN inv :
             inv[p].cmd = "login" /\ inv[p].pc = "login_save1"
     /\ LET config == loadConfig(file')
            expiry == DateParse(config["jwtExpiresAt"])
        IN  (Truthy(config["jwtToken"]) /\ expiry.valid)
            => (isLoggedIn(file', now') <=> now' < expiry.ms)]_vars

\* C13 witness: a second login has replaced the session of the first, and
\* the clock has reached the expiry of the new session.
C13_Witness ==
  \E p \in DOMAIN inv :
    /\ inv[p].pc = "login_store"
    /\ inv[p].current["jwtToken"] = IssuedToken(1)
    /\ inv[p].resp.token = IssuedToken(2)
    /\ loadConfig(file)["jwtToken"] = IssuedToken(2)
    /\ DateParse(loadConfig(file)["jwtExpiresAt"]).valid
    /\ now >= DateParse(loadConfig(file)["jwtExpiresAt"]).ms
    /\ ~isLoggedIn(file, now)

\* C14: a login whose exchange fails (fetch rejects, a non-2xx answer, a
\* body with ok = false, a body without a token) ends with API_ERROR in
\* the step that received the answer, having sent one request and saved
\* nothing; and no step taken while the login is resolving its key,
\* sending or waiting changes the record, so the record is the one the
\* command found.
C14_FailedLoginLeavesRecord ==
  [][\A p \in DOMAIN inv :
       /\ (inv[p].cmd = "login"
           /\ inv[p].pc \in {"login_resolve", "login_send", "login_await"})
          => file' = file
       /\ (inv[p].pc = "login_await" /\ inv'[p].pc # "login_await"
           /\ ~inv'[p].authOk)
          => /\ inv'[p].pc = "done"
             /\ inv'[p].exitCode = API_ERROR
             /\ inv'[p].nreq = 1
             /\ inv'[p].nsave = 0
             /\ file' = file]_vars

\* C14 witness: a login has failed over a record that holds a session and
\* a stored key.
C14_Witness ==
  \E p \in DOMAIN inv :
    /\ inv[p].cmd = "login" /\ inv[p].pc = "done"
    /\ ~inv[p].authOk /\ inv[p].nreq = 1
    /\ inv[p].exitCode = API_ERROR
    /\ Truthy(loadConfig(file)["jwtToken"])
    /\ HasBundle(file)

\* C15: an ApiError is classified by its status code alone: rate-limited
\* iff 429, permission-denied iff 403, unauthorized iff 401; at most one of
\* the three flags is set; statusCode, errorBody and retryAfterSeconds are
\* the values it was constructed with.
C15_ClassifiedByStatus ==
  (call.returned /\ call.args.fn = "ApiError")
  => LET e == call.result
         flags == <<e.isRateLimited, e.isPermissionDenied, e.isUnauthorized>>
     IN  /\ e.isRateLimited <=> call.args.statusCode = 429
         /\ e.isPermissionDenied <=> call.args.statusCode = 403
         /\ e.isUnauthorized <=> call.args.statusCode = 401
         /\ Cardinality({i \in 1..3 : flags[i]}) <= 1
         /\ e.statusCode = call.args.statusCode
         /\ e.errorBody = call.args.errorBody
         /\ e.retryAfterSeconds = call.args.retryAfter

\* C15 witness: an ApiError of status 429 with a body and a retry hint has
\* been built.
C15_Witness ==
  /\ call.returned /\ call.args.fn = "ApiError"
  /\ call.args.statusCode = 429
  /\ call.args.errorBody = "denied"
  /\ call.args.retryAfter = Number(5)
  /\ call.result.isRateLimited

\* C16: parseRetryAfter returns n for a header that is the non-negative
\* integer n, max(0, ceil((date - now) / 1000)) for a header that is an
\* HTTP-date, and null for no header and for a header that is neither;
\* the result is null or a non-negative integer.
C16_RetryAfterSeconds ==
  (call.returned /\ call.args.fn = "parseRetryAfter")
  => LET h == call.args.header
         r == call.result
     IN  /\ (h.form = "digits" /\ h.rest = "") => r = Number(h.n)
         /\ h.form = "httpdate"
            => /\ ~r.null /\ r.n >= 0
               /\ r.n * 1000 >= h.ms - now
               /\ r.n = 0 \/ (r.n - 1) * 1000 < h.ms - now
         /\ (h.form \in {"null", "empty", "text"}
             \/ (h.form = "digits" /\ h.rest # ""))
            => r = NullNumber
         /\ r.null \/ r.n >= 0

\* C19: getApiUrl returns a non-empty apiUrl option as it is; otherwise
\* the environment is the env option, or else the persisted environment,
\* or else prod, and the result is the dev URL for dev and the prod URL
\* for any other value.
C19_ApiUrlPrecedence ==
  (call.returned /\ call.args.fn = "getApiUrl")
  => LET given(x) == x \notin {Undefined, ""}
         persisted == IF file.kind = "json" THEN file.cfg["environment"] ELSE "prod"
         env == IF given(call.args.env) THEN call.args.env
                ELSE IF given(persisted) THEN persisted ELSE "prod"
     IN  call.result =
           IF given(call.args.apiUrl) THEN call.args.apiUrl
           ELSE IF env = "dev" THEN "https://dev-api.sequence.build"
                ELSE "https://api.sequence.build"

\* C19 witness: the env option dev has decided over a persisted prod.
C19_Witness ==
  /\ call.returned /\ call.args.fn = "getApiUrl"
  /\ call.args.apiUrl = Undefined /\ call.args.env = "dev"
  /\ file.kind = "json" /\ file.cfg["environment"] = "prod"
  /\ call.result = DevUrl

\* C20: isValidPrivateKey is true exactly for the strings that, with or
\* without 0x, are 64 hex digits naming a usable key; it is false for the
\* empty string, for too few and too many digits and for a character that
\* is no hex digit; it always returns.
C20_ValidKeyFormat ==
  (call.returned /\ call.args.fn = "isValidPrivateKey")
  => /\ call.result \in BOOLEAN
     /\ call.args.privateKey = "" => ~call.result
     /\ \A b \in BOOLEAN, n \in KeyLengths, kind \in KeyKinds :
          call.args.privateKey = KeyString(b, n, kind)
          => (call.result <=> (n = 64 /\ kind = "hex"))

\* C20 witness: 64 hex digits without the prefix have been accepted.
C20_Witness ==
  /\ call.returned /\ call.args.fn = "isValidPrivateKey"
  /\ call.args.privateKey = KeyString(FALSE, 64, "hex")
  /\ call.result

\* The retry hint of a response at the time t: none without the header,
\* n for the digits of n, and for a date the least number of whole seconds,
\* not below 0, that reaches it.
HintOf(resp, t) ==
  CASE resp.retryAfter.form = "digits" /\ resp.retryAfter.rest = "" ->
         Number(resp.retryAfter.n)
    [] resp.retryAfter.form = "httpdate" ->
         Number(CHOOSE r \in 0..(MaxTime + 1) :
                  /\ r * 1000 >= resp.retryAfter.ms - t
                  /\ r = 0 \/ (r - 1) * 1000 < resp.retryAfter.ms - t)
    [] OTHER -> NullNumber

\* C17: a call of apiRequest or quotaApiRequest sends one request; on a
\* non-2xx response it throws an ApiError with the status code, the retry
\* hint and the body of that response; on a 2xx response it throws nothing
\* and the caller goes on with the body; no second request is sent.
C17_OneRequestPerCall ==
  [][\A p \in DOMAIN inv :
       /\ inv'[p].nreq <= 1
       /\ (inv[p].pc \in {"login_await", "pa_await"} /\ inv'[p].pc # inv[p].pc)
          => LET resp == inv'[p].resp
                 error == inv'[p].error
             IN  /\ inv[p].nreq = 1 /\ inv'[p].nreq = 1
                 /\ (resp.kind = "http" /\ resp.status \notin 200..299)
                    => /\ error.name = "ApiError"
                       /\ error.statusCode = resp.status
                       /\ error.errorBody = resp.text
                       /\ error.retryAfterSeconds = HintOf(resp, now)
                 /\ (resp.kind = "http" /\ resp.status \in 200..299)
                    => /\ error = NoError
                       /\ inv[p].cmd = "login"
                          => /\ inv'[p].authOk = (resp.ok /\ Truthy(resp.token))
                             /\ inv'[p].authOk
                                => /\ inv'[p].updates["jwtToken"] = resp.token
                                   /\ inv'[p].updates["jwtExpiresAt"] = resp.expiresAt
                       /\ inv[p].cmd # "login" => inv'[p].exitCode = SUCCESS
     ]_vars

\* C17 witness: quotaApiRequest has thrown the ApiError of a 429 response
\* with Retry-After: 5 after one request.
C17_Witness ==
  \E p \in DOMAIN inv :
    /\ inv[p].cmd = "apikeys" /\ inv[p].pc = "done"
    /\ inv[p].nreq = 1
    /\ inv[p].resp.status = 429
    /\ inv[p].resp.retryAfter = Digits(5, "")
    /\ inv[p].resp.text = "denied"
    /\ inv[p].error.statusCode = 429
    /\ inv[p].error.retryAfterSeconds = Number(5)
    /\ inv[p].error.errorBody = "denied"

\* The retry hints and the bodies of the failures of the model.
FailureHints == {NullNumber, Number(0), Number(1), Number(5)}

\* What precedes the message of the error in a line a command prints.
LinePrefixes ==
  {"Login failed: ", "Detail: ", "Failed to list projects: ",
   "Failed to list API keys: "}

CheckedCommands == {"projects", "apikeys"} \cup DataCommands

\* C21: every action of projects and apikeys checks the session before
\* anything else: when getValidJwtToken is null at the check, the command
\* ends with exit code 10 and has sent no request, whatever its options;
\* no such action sends a request without having passed the check.
C21_NoSessionNoRequest ==
  [][\A p \in DOMAIN inv :
       /\ (inv[p].pc \in {"pa_checkAuth", "pd_checkAuth"} /\ inv'[p] # inv[p]
           /\ getValidJwtToken(file, now) = Null)
          => /\ inv'[p].pc = "done"
             /\ inv'[p].exitCode = 10
             /\ inv'[p].nreq = 0
             /\ inv'[p].req = NoRequest
       /\ (inv'[p].cmd \in CheckedCommands /\ inv'[p].nreq > 0)
          => inv'[p].loggedIn
       /\ (inv[p].cmd \in CheckedCommands /\ inv[p].pc = "done"
           /\ inv[p].exitCode = 10 /\ inv'[p].pc # "idle")
          => inv'[p] = inv[p]
     ]_vars

\* C21 witness: apikeys default, run over a record whose session has
\* expired, has ended with exit code 10 without a request.
C21_Witness ==
  \E p \in DOMAIN inv :
    /\ inv[p].cmd = "apikeys default" /\ inv[p].pc = "done"
    /\ inv[p].exitCode = 10 /\ inv[p].nreq = 0
    /\ loadConfig(file)["jwtToken"] # Undefined
    /\ getValidJwtToken(file, now) = Null

\* C22: with SEQUENCE_PASSPHRASE set and a key stored under it, login,
\* wallet-info and transfer run without -k and go on with the stored key;
\* with -k each of them goes on with the key given.
C22_StoredKeyServesKeyUsers ==
  \A p \in DOMAIN inv :
    (/\ inv[p].cmd \in {"login", "wallet-info", "transfer"}
     /\ inv[p].pc \notin {"login_resolve", "wi_resolve", "tr_validate"})
    => /\ Truthy(inv[p].optKey)
          => inv[p].privateKey = inv[p].optKey /\ ~inv[p].decrypted
       /\ (/\ inv[p].optKey = Undefined
           /\ lastStore # NoStore
           /\ inv[p].passphrase = lastStore.passphrase)
          => inv[p].privateKey = lastStore.key

\* C23: an invocation saves the persisted record at most once and sends
\* at most one request to the remote API, whatever the command, its
\* options and the environment.
C23_OneSaveOneRequest ==
  \A p \in DOMAIN inv : inv[p].nsave <= 1 /\ inv[p].nreq <= 1

\* The record the invocation r leaves when it runs on to its end from a
\* point after its last await, over the record on file.
CompletedRecord(r, f) ==
  LET saved == IF r.pc \in {"cw_save", "login_save1"}
               THEN Merge(r.current, r.updates)
               ELSE loadConfig(f)
      bundle == KeyUpdates(encryptPrivateKey(r.privateKey, r.passphrase,
                                             RandomSalt(invCount), RandomIv(invCount)))
  IN  IF r.cmd = "login" /\ r.pc \in {"login_save1", "login_store"}
         /\ Truthy(r.passphrase)
      THEN Merge(saved, bundle)
      ELSE IF r.pc = "login_save2" THEN Merge(r.current, r.updates)
           ELSE saved

\* C24: when a command is interrupted before it completes, the record on
\* file is the record from before the command started or the record the
\* completed command would have left, and no record in between.
C24_InterruptAllOrNothing ==
  [][\A p \in DOMAIN inv :
       (inv[p].pc \notin {"idle", "done"} /\ inv'[p].pc = "idle")
       => \/ loadConfig(file') = inv[p].before
          \/ loadConfig(file') = CompletedRecord(inv[p], file)
     ]_vars

\* C25: when two invocations run at the same time and each performs
\* updateConfig, the record on file after a save is the saver's snapshot
\* with the saver's updates: a field the other invocation wrote after the
\* saver loaded is lost, and nothing but a save changes the file, so the
\* record left is that of the last saver.
C25_LastWriterWins ==
  [][/\ \A p \in DOMAIN inv :
          (inv[p].pc \in SavePcs /\ inv'[p].pc # inv[p].pc)
          => /\ loadConfig(file') = Merge(inv[p].current, inv[p].updates)
             /\ \A f \in Fields \ DOMAIN inv[p].updates :
                  (loadConfig(file)[f] # inv[p].current[f])
                  => (/\ loadConfig(file')[f] = inv[p].current[f]
                      /\ loadConfig(file')[f] # loadConfig(file)[f])
             /\ inv'[p].nsave = inv[p].nsave + 1
     /\ (file' # file)
        => (\E p \in DOMAIN inv : inv[p].pc \in SavePcs /\ inv'[p].pc # inv[p].pc)
    ]_vars

\* C25 witness: create-wallet has stored its bundle and ended, and the
\* login that loaded the record before that has saved its session over it:
\* the bundle is gone from the file.
C25_Witness ==
  \E p, q \in DOMAIN inv :
    /\ inv[q].cmd = "create-wallet" /\ inv[q].pc = "done" /\ inv[q].stored
    /\ inv[p].cmd = "login" /\ inv[p].pc = "login_store"
    /\ loadConfig(file)["jwtToken"] = inv[p].updates["jwtToken"]
    /\ ~HasBundle(file)

\* C26: every invocation that has started ends, whatever the remote
\* endpoint does: no network wait keeps the process for ever.
C26_EveryInvocationEnds ==
  \A p \in SeqProcs : (inv[p].pc \notin {"idle", "done"}) ~> (inv[p].pc = "done")

\* C27: whatever invocations have run and however their steps were
\* interleaved, the three key fields of the record are all absent or are
\* together the result of one encryptPrivateKey call: one key, one
\* passphrase, the salt and the iv of one call.
C27_AtMostOneBundle ==
  \/ \A k \in KeyFields : loadConfig(file)[k] = Undefined
  \/ \E n \in 0..MaxCallNumber :
       /\ loadConfig(file)["encryptionSalt"] = RandomSalt(n)
       /\ loadConfig(file)["encryptionIv"] = RandomIv(n)
       /\ \E key \in {KeyA} \cup GeneratedKeys :
            Bundle(file) = KeyUpdates(encryptPrivateKey(key, "pw1", RandomSalt(n), RandomIv(n)))

\* C27 witness: a login and a create-wallet that ran at the same time have
\* both stored a key; the file holds the bundle of the login and nothing of
\* the other's.
C27_Witness ==
  \E p, q \in DOMAIN inv :
    /\ inv[p].cmd = "login" /\ inv[p].pc = "done" /\ inv[p].stored
    /\ inv[q].cmd = "create-wallet" /\ inv[q].pc = "done" /\ inv[q].stored
    /\ HasBundle(file)
    /\ \E n \in 0..MaxCallNumber :
         Bundle(file) = KeyUpdates(encryptPrivateKey(KeyA, "pw1", RandomSalt(n), RandomIv(n)))

\* The base URL of the environment the record names.
PersistedUrl(f) == IF loadConfig(f)["environment"] = "dev" THEN DevUrl ELSE ProdUrl

RequestPaths ==
  {"/rpc/Builder/" \o e : e \in {"ListProjects", "CreateProject", "GetProject"}}
  \cup {"/rpc/QuotaControl/" \o e : e \in {"ListAccessKeys", "GetDefaultAccessKey"}}

\* C28: the request of a projects or apikeys command that was given
\* neither --env nor --api-url goes to the base URL of the environment the
\* record names.  Without --env the env option holds its default, prod.
C28_PersistedEnvironmentUsed ==
  \A p \in DOMAIN inv :
    (/\ inv[p].cmd \in CheckedCommands
     /\ inv[p].optEnv = "prod" /\ inv[p].optApiUrl = Undefined
     /\ inv[p].nreq > 0)
    => \E path \in RequestPaths : inv[p].req.url = PersistedUrl(file) \o path

\* C29: an invocation that has printed, under --json, an error object with
\* a code field has ended with that code as its exit code.
C29_ExitCodeIsReportedCode ==
  \A p \in DOMAIN inv :
    (inv[p].pc = "done" /\ "error" \in DOMAIN inv[p].report.json)
    => inv[p].exitCode = inv[p].report.json.code

\* C30: the request of a projects or apikeys command carries an
\* Authorization header, whatever happened between checkAuth and the
\* read of the token in the request function.
C30_RequestCarriesBearer ==
  \A p \in DOMAIN inv :
    (inv[p].cmd \in CheckedCommands /\ inv[p].nreq > 0)
    => inv[p].req.authorization # Undefined

====
